---- MODULE Spec2Model ----
(***************************************************************************)
(* Horust supervision engine: the per-service state machine, the scheduler *)
(* loop, the spawn threads, stop_all and the reaper.                       *)
(*                                                                         *)
(* The repository holds two revisions of the scheduler:                    *)
(*   build = "mod"      src/horust/mod.rs      (handler vector in a Mutex)  *)
(*   build = "runtime"  src/horust/runtime.rs  (ServiceRepository)          *)
(* and the reaper batch of src/horust/supervisor/reaper.rs.  Init picks    *)
(* the build; every property is checked over both.                         *)
(*                                                                         *)
(* Specifications:                                                         *)
(*   Spec, FairSpec  the supervisor on one handler table                   *)
(*   HistSpec        Spec with the last folded exit event recorded         *)
(*   FetchSpec       fetch_services on a directory listing                 *)
(*   BusSpec         the runtime of runtime.rs with one repository replica *)
(*                   per component, synchronised through the event bus     *)
(*   ReaperSpec      Spec with orphaned descendants reparented to the      *)
(*                   supervisor (subreaping)                               *)
(***************************************************************************)
EXTENDS Integers, Sequences, FiniteSets, TLC

\* ---------------------------------------------------------------- bounds
MaxPid == 2
MaxIterations == 2
MaxDirLen == 3
MaxEvents == 5
MaxOrphans == 1

\* ------------------------------------------------------------- constants
NoPid == 0
SignaledCode == 0 - 137

Names == {"a", "b"}
ServiceOrder == <<"a", "b">>
Pids == 1..MaxPid
ExitCodes == {0, 1}
Codes == ExitCodes \cup {SignaledCode}
RestartStrategy == {"Never", "OnFailure", "Always"}
ServiceStatus == {"Initial", "ToBeRun", "Starting", "Running", "InKilling",
                  "Finished", "FinishedFailed", "Failed"}
Terminal == {"Finished", "FinishedFailed", "Failed"}
Builds == {"mod", "runtime"}

\* the components holding a bus endpoint and a repository (runtime.rs 28, 64-74)
Components == {"runtime", "reaper", "healthcheck"}

\* the value of fetched before fetch_services has returned
NotFetched == [ok |-> FALSE, services |-> <<>>, returned |-> FALSE]

\* start_after of the two services of the test directory: b starts after a
start_after(s) == IF s = "b" THEN {"a"} ELSE {}

VARIABLES
    build,             \* which revision of the scheduler runs
    restart_strategy,  \* Service.restart_strategy, per service
    supervised,        \* the handler table: name -> [status, pid]
    SIGTERM_RECEIVED,  \* the process-wide flag set by the signal handler
    main,              \* position of the scheduler loop
    spawn,             \* per service: the spawn thread [st, pid]
    procs,             \* the OS process table: pid -> [st, owner, code, termed]
    reaper,            \* the reaper: [pc, i, events]
    last_exited,       \* history: the ServiceExited event folded last (HistSpec)
    services_dir,      \* the directory listing given to fetch_services (FetchSpec)
    fetched,           \* the value fetch_services returned (FetchSpec)
    outbound,          \* bus: per component, the events sent and not yet dispatched
    inbound,           \* bus: per component, the events dispatched and not yet ingested
    delivered,         \* history: per component, the events ingested so far (BusSpec)
    replica,           \* per component, its repository's handler table (BusSpec)
    published          \* history: the number of events sent to the bus (BusSpec)

fetch_vars == <<services_dir, fetched>>
bus_vars == <<outbound, inbound, delivered, replica, published>>

vars == <<build, restart_strategy, supervised, SIGTERM_RECEIVED, main, spawn,
          procs, reaper, last_exited, fetch_vars, bus_vars>>

\* ------------------------------------------------------- ServiceHandler
Handler(st, p) == [status |-> st, pid |-> p]

is_running(sh) == sh.status = "Running"

is_finished(sh) == sh.status \in {"Finished", "FinishedFailed"}

is_initial(sh) == sh.status = "Initial"

set_pid(sh, p) == Handler("Running", p)

\* set_status_by_exit_code with the two arms of OnFailure exchanged (a faulty
\* variant, for RestartPolicyOnExit)
set_status_by_exit_code_swapped(sh, strategy, exit_code) ==
    LET has_failed == exit_code # 0
    IN  CASE strategy = "Never" ->
               Handler(IF has_failed THEN "FinishedFailed" ELSE "Finished", NoPid)
          [] strategy = "OnFailure" ->
               Handler(IF has_failed THEN "Finished" ELSE "Initial", NoPid)
          [] strategy = "Always" ->
               Handler("Initial", NoPid)

\* mod.rs 76-101
set_status_by_exit_code(sh, strategy, exit_code) ==
    LET has_failed == exit_code # 0
    IN  CASE strategy = "Never" ->
               Handler(IF has_failed THEN "FinishedFailed" ELSE "Finished", NoPid)
          [] strategy = "OnFailure" ->
               Handler(IF has_failed THEN "Initial" ELSE "Finished", NoPid)
          [] strategy = "Always" ->
               Handler("Initial", NoPid)

\* ------------------------------------------------------------ processes
FreeProc == [st |-> "free", owner |-> "-", code |-> 0, termed |-> FALSE]

\* kill(pid, SIGTERM): Err(ESRCH) when no such process exists
kill_ok(pr, p) == pr[p].st # "free"

kill(pr, p) == IF pr[p].st = "alive" THEN [pr EXCEPT ![p].termed = TRUE] ELSE pr

\* the supervisor after Horust::new, before run()
Supervisor0 ==
    /\ supervised = [s \in Names |-> Handler("Initial", NoPid)]
    /\ SIGTERM_RECEIVED = FALSE
    /\ main = "check"
    /\ spawn = [s \in Names |-> [st |-> "none", pid |-> NoPid]]
    /\ procs = [p \in Pids |-> FreeProc]
    /\ reaper = [pc |-> "idle", i |-> 0, events |-> <<>>]
    /\ last_exited = <<>>

\* no directory is being loaded
Fetch0 == services_dir = <<>> /\ fetched = NotFetched

\* the bus with nothing sent, every replica fresh
Bus0 ==
    /\ outbound = [c \in Components |-> <<>>]
    /\ inbound = [c \in Components |-> <<>>]
    /\ delivered = [c \in Components |-> <<>>]
    /\ replica = [c \in Components |-> [s \in Names |-> Handler("Initial", NoPid)]]
    /\ published = 0

Init ==
    /\ build \in Builds
    /\ restart_strategy \in [Names -> RestartStrategy]
    /\ Supervisor0
    /\ Fetch0
    /\ Bus0

Live == main \notin {"done", "aborted"}

\* the signal handler
handle_sigterm ==
    /\ Live
    /\ ~SIGTERM_RECEIVED
    /\ SIGTERM_RECEIVED' = TRUE
    /\ UNCHANGED <<build, restart_strategy, supervised, main, spawn, procs, reaper, last_exited,
                   fetch_vars, bus_vars>>

\* --------------------------------------------- stop_all_services (mod.rs)
\* for_each over the vector: kill the recorded pid (unwrap panics on Err),
\* then mark the handler Finished.  Result: [tbl, pr, ok].
RECURSIVE stop_all_mod(_, _, _)
stop_all_mod(tbl, pr, i) ==
    IF i > Len(ServiceOrder) THEN [tbl |-> tbl, pr |-> pr, ok |-> TRUE]
    ELSE LET s == ServiceOrder[i]
             p == tbl[s].pid
         IN  IF p # NoPid /\ ~kill_ok(pr, p)
             THEN [tbl |-> tbl, pr |-> pr, ok |-> FALSE]
             ELSE stop_all_mod([tbl EXCEPT ![s].status = "Finished"],
                               IF p # NoPid THEN kill(pr, p) ELSE pr,
                               i + 1)

\* ----------------------------------------- stop_all_services (runtime.rs)
RECURSIVE stop_all_runtime(_, _, _)
stop_all_runtime(tbl, pr, i) ==
    IF i > Len(ServiceOrder) THEN [tbl |-> tbl, pr |-> pr, ok |-> TRUE]
    ELSE LET s == ServiceOrder[i]
             sh == tbl[s]
         IN  IF is_running(sh) /\ sh.pid # NoPid
             THEN IF ~kill_ok(pr, sh.pid)
                  THEN [tbl |-> tbl, pr |-> pr, ok |-> FALSE]
                  ELSE stop_all_runtime([tbl EXCEPT ![s].status = "InKilling"],
                                        kill(pr, sh.pid), i + 1)
             ELSE IF is_initial(sh)
                  THEN stop_all_runtime([tbl EXCEPT ![s].status = "Finished"], pr, i + 1)
                  ELSE stop_all_runtime(tbl, pr, i + 1)

\* ------------------------------------------------ the scheduler, mod.rs
\* check_can_run that also accepts a dependency still in ToBeRun (a faulty
\* variant, for StartOrdering)
check_can_run_tobe(tbl, dependencies) ==
    \A d \in dependencies : tbl[d].status \in {"ToBeRun", "Running", "Finished"}

\* "Check if all dependant services are either running or finished"
check_can_run(tbl, dependencies) ==
    \A d \in dependencies : tbl[d].status \in {"Running", "Finished"}

\* the threads started in one pass: every handler moved to ToBeRun
Started(old, new) == {s \in Names : old[s].status # "ToBeRun" /\ new[s].status = "ToBeRun"}

SpawnThreads(old, new) ==
    [s \in Names |-> IF s \in Started(old, new)
                     THEN [st |-> "sleeping", pid |-> NoPid]
                     ELSE spawn[s]]

\* mod.rs 130-137: the flag and any(is_running), under a short lock
MainCheck ==
    /\ build = "mod"
    /\ main = "check"
    /\ main' = IF SIGTERM_RECEIVED /\ \E s \in Names : is_running(supervised[s])
               THEN "stop" ELSE "map"
    /\ UNCHANGED <<build, restart_strategy, supervised, SIGTERM_RECEIVED, spawn,
                   procs, reaper, last_exited,
                   fetch_vars, bus_vars>>

\* mod.rs 138-139
MainStopAll ==
    /\ build = "mod"
    /\ main = "stop"
    /\ LET r == stop_all_mod(supervised, procs, 1)
       IN  /\ supervised' = r.tbl
           /\ procs' = r.pr
           /\ main' = IF r.ok THEN "map" ELSE "aborted"
    /\ UNCHANGED <<build, restart_strategy, SIGTERM_RECEIVED, spawn, reaper, last_exited,
                   fetch_vars, bus_vars>>

\* mod.rs 141-190: one pass over the locked vector, then all_finished
MainMap ==
    /\ build = "mod"
    /\ main = "map"
    /\ LET new == [s \in Names |->
                     IF supervised[s].status = "Initial"
                        /\ check_can_run(supervised, start_after(s))
                     THEN [supervised[s] EXCEPT !.status = "ToBeRun"]
                     ELSE supervised[s]]
       IN  /\ supervised' = new
           /\ spawn' = SpawnThreads(supervised, new)
           /\ main' = IF \A s \in Names : is_finished(new[s]) THEN "done" ELSE "check"
    /\ UNCHANGED <<build, restart_strategy, SIGTERM_RECEIVED, procs, reaper, last_exited,
                   fetch_vars, bus_vars>>

\* ---------------------------------------------- the scheduler, runtime.rs
is_any_service_running(tbl) == \E s \in Names : is_running(tbl[s])

get_runnable_services(tbl) ==
    {s \in Names : /\ is_initial(tbl[s])
                   /\ \A d \in start_after(s) :
                        tbl[d].status \in {"Running", "Finished", "FinishedFailed"}}

all_finished(tbl) == \A s \in Names : tbl[s].status \in Terminal

\* update_status: StatusChanged, not out of a terminal status
update_status(tbl, s, st) ==
    IF tbl[s].status \in Terminal THEN tbl ELSE [tbl EXCEPT ![s].status = st]

\* update_pid: ServicePidAssigned, for a handler in ToBeRun or Starting
update_pid(tbl, s, p) ==
    IF tbl[s].status \in {"ToBeRun", "Starting"}
    THEN [tbl EXCEPT ![s] = Handler("Running", p)]
    ELSE tbl

\* runtime.rs 82-102: one iteration of the loop on the scheduler's repository
MainTick ==
    /\ build = "runtime"
    /\ main = "check"
    /\ LET stop == SIGTERM_RECEIVED /\ is_any_service_running(supervised)
           r == IF stop THEN stop_all_runtime(supervised, procs, 1)
                ELSE [tbl |-> supervised, pr |-> procs, ok |-> TRUE]
           runnable == get_runnable_services(r.tbl)
           new == [s \in Names |-> IF s \in runnable
                                   THEN update_status(r.tbl, s, "ToBeRun")[s]
                                   ELSE r.tbl[s]]
       IN  IF ~r.ok
           THEN /\ supervised' = r.tbl
                /\ procs' = r.pr
                /\ main' = "aborted"
                /\ UNCHANGED spawn
           ELSE /\ supervised' = new
                /\ procs' = r.pr
                /\ spawn' = SpawnThreads(r.tbl, new)
                /\ main' = IF all_finished(new) THEN "done" ELSE "check"
    /\ UNCHANGED <<build, restart_strategy, SIGTERM_RECEIVED, reaper, last_exited,
                   fetch_vars, bus_vars>>

\* ------------------------------------------------------ the spawn thread
\* fork(): Ok(child) with any pid the OS has free, or Err
spawn_process_ok(s, p) ==
    /\ Live
    /\ spawn[s].st = "sleeping"
    /\ procs[p].st = "free"
    /\ procs' = [procs EXCEPT ![p] = [st |-> "alive", owner |-> s, code |-> 0,
                                      termed |-> FALSE]]
    /\ spawn' = [spawn EXCEPT ![s] = [st |-> "forked", pid |-> p]]
    /\ UNCHANGED <<build, restart_strategy, supervised, SIGTERM_RECEIVED, main, reaper, last_exited,
                   fetch_vars, bus_vars>>

\* mod.rs 171: expect() panics the thread; runtime.rs 143-146: Failed
spawn_process_err(s) ==
    /\ Live
    /\ spawn[s].st = "sleeping"
    /\ spawn' = [spawn EXCEPT ![s] = [st |-> "none", pid |-> NoPid]]
    /\ supervised' = IF build = "mod" THEN supervised
                     ELSE update_status(supervised, s, "Failed")
    /\ UNCHANGED <<build, restart_strategy, SIGTERM_RECEIVED, main, procs, reaper, last_exited,
                   fetch_vars, bus_vars>>

\* mod.rs 172-181 (set_pid under the lock); runtime.rs 139-142 (update_pid).
\* The vector is locked by the scheduler for the whole of MainMap, which is
\* one step here, so the lock adds no further guard.
record_pid(s) ==
    /\ Live
    /\ spawn[s].st = "forked"
    /\ supervised' = IF build = "mod"
                     THEN [supervised EXCEPT ![s] = set_pid(supervised[s], spawn[s].pid)]
                     ELSE update_pid(supervised, s, spawn[s].pid)
    /\ spawn' = [spawn EXCEPT ![s] = [st |-> "none", pid |-> NoPid]]
    /\ UNCHANGED <<build, restart_strategy, SIGTERM_RECEIVED, main, procs, reaper, last_exited,
                   fetch_vars, bus_vars>>

\* -------------------------------------------------- a service's process
\* the process ends: by its own exit code, or by the SIGTERM it was sent
ExitOutcomes(pr) == IF pr.termed THEN Codes ELSE ExitCodes

child_exit(p, c) ==
    /\ Live
    /\ procs[p].st = "alive"
    /\ c \in ExitOutcomes(procs[p])
    /\ procs' = [procs EXCEPT ![p] = [st |-> "zombie", owner |-> @.owner,
                                      code |-> c, termed |-> FALSE]]
    /\ UNCHANGED <<build, restart_strategy, supervised, SIGTERM_RECEIVED, main,
                   spawn, reaper, last_exited,
                   fetch_vars, bus_vars>>

\* ------------------------------------------------------------ the reaper
\* Repo::get_service_by_pid: the first handler of the vector holding the pid
RECURSIVE find_by_pid(_, _, _)
find_by_pid(tbl, p, i) ==
    IF i > Len(ServiceOrder) THEN "-"
    ELSE IF tbl[ServiceOrder[i]].pid = p THEN ServiceOrder[i]
    ELSE find_by_pid(tbl, p, i + 1)

get_service_by_pid(tbl, p) == find_by_pid(tbl, p, 1)

Zombies == {p \in Pids : procs[p].st = "zombie"}

\* a wakeup starts a batch of reaper::run(repo, max_iterations)
reaper_wakeup ==
    /\ Live
    /\ reaper.pc = "idle"
    /\ reaper.events = <<>>
    /\ reaper' = [pc |-> "reaping", i |-> 0, events |-> <<>>]
    /\ UNCHANGED <<build, restart_strategy, supervised, SIGTERM_RECEIVED, main,
                   spawn, procs, last_exited,
                   fetch_vars, bus_vars>>

NextIter(ev) ==
    IF reaper.i + 1 = MaxIterations
    THEN [pc |-> "idle", i |-> 0, events |-> ev]
    ELSE [pc |-> "reaping", i |-> reaper.i + 1, events |-> ev]

\* reaper.rs 21-36: waitpid(-1, WNOHANG) returns Exited / Signaled for pid p
reaper_reap(p) ==
    /\ Live
    /\ reaper.pc = "reaping"
    /\ p \in Zombies
    /\ LET s_name == get_service_by_pid(supervised, p)
       IN  reaper' = NextIter(IF s_name = "-" THEN reaper.events
                              ELSE Append(reaper.events,
                                          [name |-> s_name, code |-> procs[p].code]))
    /\ procs' = [procs EXCEPT ![p] = FreeProc]
    /\ UNCHANGED <<build, restart_strategy, supervised, SIGTERM_RECEIVED, main, spawn, last_exited,
                   fetch_vars, bus_vars>>

\* reaper.rs 35, 37-50: StillAlive or Err: None, and the iteration goes on
reaper_none ==
    /\ Live
    /\ reaper.pc = "reaping"
    /\ Zombies = {}
    /\ reaper' = NextIter(reaper.events)
    /\ UNCHANGED <<build, restart_strategy, supervised, SIGTERM_RECEIVED, main,
                   spawn, procs, last_exited,
                   fetch_vars, bus_vars>>

\* the fold of ServiceExited(name, code) into the handler table
fold_service_exited(tbl, ev) ==
    IF tbl[ev.name].pid # NoPid
    THEN [tbl EXCEPT ![ev.name] =
            set_status_by_exit_code(tbl[ev.name], restart_strategy[ev.name], ev.code)]
    ELSE tbl

ingest_service_exited ==
    /\ Live
    /\ reaper.pc = "idle"
    /\ reaper.events # <<>>
    /\ supervised' = fold_service_exited(supervised, Head(reaper.events))
    /\ reaper' = [reaper EXCEPT !.events = Tail(reaper.events)]
    /\ UNCHANGED <<build, restart_strategy, SIGTERM_RECEIVED, main, spawn, procs,
                   fetch_vars, bus_vars>>

service_exited ==
    /\ ingest_service_exited
    /\ UNCHANGED last_exited

\* the same step, with the folded event kept in the history variable
service_exited_logged ==
    /\ ingest_service_exited
    /\ last_exited' = <<Head(reaper.events)>>

\* -------------------------------------------------------- fetch_services
\* A file name is the sequence of its characters.
toml == <<"t", "o", "m", "l">>

FileNames ==
    { <<"a", ".">> \o toml,          \* a.toml
      <<"b", ".">> \o toml,          \* b.toml
      <<"n">>,                       \* no extension
      <<"c", ".", "x">> \o toml,     \* c.xtoml
      <<".">> \o toml,               \* .toml
      toml }                         \* toml

\* a directory entry: its file name, whether it is a regular file, and
\* whether Service::from_file succeeds on it
DirEntries ==
    {[name |-> n, is_file |-> TRUE, parses |-> ok] : n \in FileNames, ok \in BOOLEAN}
    \cup {[name |-> n, is_file |-> FALSE, parses |-> FALSE] : n \in FileNames}

\* read_dir: up to MaxDirLen entries with distinct names, in the OS's order
Listings ==
    UNION {{d \in [1..n -> DirEntries] :
               \A i, j \in 1..n : i # j => d[i].name # d[j].name} : n \in 0..MaxDirLen}

ends_with(str, suffix) ==
    /\ Len(str) >= Len(suffix)
    /\ SubSeq(str, Len(str) - Len(suffix) + 1, Len(str)) = suffix

\* Path::extension: the part after the last '.', None (here "") when the
\* name has no '.' or only a leading one
extension(name) ==
    LET dots == {i \in 1..Len(name) : name[i] = "."}
        last == CHOOSE i \in dots : \A j \in dots : j <= i
    IN  IF dots = {} THEN <<>>
        ELSE IF last = 1 THEN <<>>
        ELSE SubSeq(name, last + 1, Len(name))

has_toml_extension(name) == ends_with(extension(name), toml)

is_toml_file(e) == e.is_file /\ has_toml_extension(e.name)

IsParsed(e) == e.parses

\* mod.rs 227-248: collect::<Result<Vec<Service>>>() is Err as soon as one
\* from_file is Err
fetch_services_mod(dir) ==
    LET files == SelectSeq(dir, is_toml_file)
    IN  IF \E i \in 1..Len(files) : ~files[i].parses
        THEN [ok |-> FALSE, services |-> <<>>, returned |-> TRUE]
        ELSE [ok |-> TRUE, services |-> files, returned |-> TRUE]

\* runtime.rs 152-179: filter(Result::is_ok) drops the files that fail
fetch_services_runtime(dir) ==
    [ok |-> TRUE,
     services |-> SelectSeq(SelectSeq(dir, is_toml_file), IsParsed),
     returned |-> TRUE]

fetch_services ==
    /\ ~fetched.returned
    /\ fetched' = IF build = "mod" THEN fetch_services_mod(services_dir)
                  ELSE fetch_services_runtime(services_dir)
    /\ UNCHANGED <<build, restart_strategy, supervised, SIGTERM_RECEIVED, main, spawn,
                   procs, reaper, last_exited, services_dir, bus_vars>>

\* from_services_dir on any directory listing, with either revision
FetchInit ==
    /\ build \in Builds
    /\ restart_strategy = [s \in Names |-> "Never"]
    /\ Supervisor0
    /\ services_dir \in Listings
    /\ fetched = NotFetched
    /\ Bus0

FetchSpec == FetchInit /\ [][fetch_services]_vars

\* ---------------------------------------------- the bus and the replicas
\* The runtime of runtime.rs with one repository per component: each holds a
\* handler table and an endpoint; events sent on an endpoint are rebroadcast
\* by the dispatcher thread to every endpoint and folded by ingest.
Event(k, n, x) == [kind |-> k, name |-> n, arg |-> x, id |-> 0]

\* the events evs, numbered in the order they are sent
Stamp(evs) == [i \in 1..Len(evs) |-> [evs[i] EXCEPT !.id = published + i]]

\* an endpoint's send: the events join the component's outbound queue
publish(c, evs) ==
    /\ published + Len(evs) <= MaxEvents
    /\ outbound' = [outbound EXCEPT ![c] = @ \o Stamp(evs)]
    /\ published' = published + Len(evs)

\* the fold of one event into a handler table
fold_event(tbl, ev) ==
    CASE ev.kind = "StatusChanged" -> update_status(tbl, ev.name, ev.arg)
      [] ev.kind = "ServicePidAssigned" -> update_pid(tbl, ev.name, ev.arg)
      [] ev.kind = "ServiceExited" ->
            fold_service_exited(tbl, [name |-> ev.name, code |-> ev.arg])

RECURSIVE fold_events(_, _)
fold_events(tbl, evs) ==
    IF evs = <<>> THEN tbl ELSE fold_events(fold_event(tbl, Head(evs)), Tail(evs))

\* a dispatcher that does not send an event back to its sender
dispatch_no_echo(c) ==
    /\ Live
    /\ outbound[c] # <<>>
    /\ outbound' = [outbound EXCEPT ![c] = Tail(@)]
    /\ inbound' = [k \in Components |-> IF k = c THEN inbound[k]
                                        ELSE Append(inbound[k], Head(outbound[c]))]
    /\ UNCHANGED <<build, restart_strategy, supervised, SIGTERM_RECEIVED, main, spawn,
                   procs, reaper, last_exited, fetch_vars, delivered, replica, published>>

\* the dispatcher thread: one event of some outbound queue goes to every
\* component's inbound queue, the sender's included
dispatch(c) ==
    /\ Live
    /\ outbound[c] # <<>>
    /\ outbound' = [outbound EXCEPT ![c] = Tail(@)]
    /\ inbound' = [k \in Components |-> Append(inbound[k], Head(outbound[c]))]
    /\ UNCHANGED <<build, restart_strategy, supervised, SIGTERM_RECEIVED, main, spawn,
                   procs, reaper, last_exited, fetch_vars, delivered, replica, published>>

\* ServiceRepository::ingest: drains the endpoint and folds the events in order
ingest(c) ==
    /\ Live
    /\ inbound[c] # <<>>
    /\ replica' = [replica EXCEPT ![c] = fold_events(@, inbound[c])]
    /\ delivered' = [delivered EXCEPT ![c] = @ \o inbound[c]]
    /\ inbound' = [inbound EXCEPT ![c] = <<>>]
    /\ UNCHANGED <<build, restart_strategy, supervised, SIGTERM_RECEIVED, main, spawn,
                   procs, reaper, last_exited, fetch_vars, outbound, published>>

\* an update_status that changes the local table and sends nothing
StatusChanges_unsent(old, new, names) == <<>>

\* StatusChanged for the handlers of names whose status differs between old and new
StatusChanges(old, new, names) ==
    LET Changed(s) == old[s].status # new[s].status
        ToEvent(s) == Event("StatusChanged", s, new[s].status)
        changed == SelectSeq(names, Changed)
    IN  [i \in 1..Len(changed) |-> ToEvent(changed[i])]

\* runtime.rs 82-102 on the runtime's own replica: the statuses are updated
\* locally and sent as StatusChanged
RuntimeTick ==
    /\ build = "runtime"
    /\ main = "check"
    /\ LET tbl == replica["runtime"]
           stop == SIGTERM_RECEIVED /\ is_any_service_running(tbl)
           r == IF stop THEN stop_all_runtime(tbl, procs, 1)
                ELSE [tbl |-> tbl, pr |-> procs, ok |-> TRUE]
           runnable == get_runnable_services(r.tbl)
           new == [s \in Names |-> IF s \in runnable
                                   THEN update_status(r.tbl, s, "ToBeRun")[s]
                                   ELSE r.tbl[s]]
       IN  IF ~r.ok
           THEN /\ main' = "aborted"
                /\ UNCHANGED <<spawn, procs, replica, outbound, published>>
           ELSE /\ replica' = [replica EXCEPT !["runtime"] = new]
                /\ procs' = r.pr
                /\ spawn' = SpawnThreads(r.tbl, new)
                /\ publish("runtime", StatusChanges(tbl, r.tbl, ServiceOrder)
                                       \o StatusChanges(r.tbl, new, ServiceOrder))
                /\ main' = IF all_finished(new) THEN "done" ELSE "check"
    /\ UNCHANGED <<build, restart_strategy, supervised, SIGTERM_RECEIVED, reaper,
                   last_exited, fetch_vars, inbound, delivered>>

\* runtime.rs 139-142: update_pid on the spawn thread's clone of the
\* runtime's repository sends ServicePidAssigned on the runtime's endpoint
send_pid(s) ==
    /\ Live
    /\ spawn[s].st = "forked"
    /\ publish("runtime", <<Event("ServicePidAssigned", s, spawn[s].pid)>>)
    /\ spawn' = [spawn EXCEPT ![s] = [st |-> "none", pid |-> NoPid]]
    /\ UNCHANGED <<build, restart_strategy, supervised, SIGTERM_RECEIVED, main, procs,
                   reaper, last_exited, fetch_vars, inbound, delivered, replica>>

\* runtime.rs 143-146: update_status(Failed) on the clone
send_failed(s) ==
    /\ Live
    /\ spawn[s].st = "sleeping"
    /\ publish("runtime", <<Event("StatusChanged", s, "Failed")>>)
    /\ spawn' = [spawn EXCEPT ![s] = [st |-> "none", pid |-> NoPid]]
    /\ UNCHANGED <<build, restart_strategy, supervised, SIGTERM_RECEIVED, main, procs,
                   reaper, last_exited, fetch_vars, inbound, delivered, replica>>

\* reaper.rs 21-36, 53-56 on the reaper's replica: one waitpid, and the
\* ServiceExited event of the handler found for the pid
send_exited(p) ==
    /\ Live
    /\ p \in Zombies
    /\ LET s_name == get_service_by_pid(replica["reaper"], p)
       IN  publish("reaper", IF s_name = "-" THEN <<>>
                             ELSE <<Event("ServiceExited", s_name, procs[p].code)>>)
    /\ procs' = [procs EXCEPT ![p] = FreeProc]
    /\ UNCHANGED <<build, restart_strategy, supervised, SIGTERM_RECEIVED, main, spawn,
                   reaper, last_exited, fetch_vars, inbound, delivered, replica>>

BusInit ==
    /\ build = "runtime"
    /\ restart_strategy = [s \in Names |-> IF s = "a" THEN "OnFailure" ELSE "Never"]
    /\ Supervisor0
    /\ Fetch0
    /\ Bus0

BusNext ==
    \/ handle_sigterm
    \/ RuntimeTick
    \/ \E s \in Names, p \in Pids : spawn_process_ok(s, p)
    \/ \E s \in Names : send_failed(s)
    \/ \E s \in Names : send_pid(s)
    \/ \E p \in Pids, c \in Codes : child_exit(p, c)
    \/ \E p \in Pids : send_exited(p)
    \/ \E c \in Components : dispatch(c)
    \/ \E c \in Components : ingest(c)

BusSpec == BusInit /\ [][BusNext]_vars

Threads ==
    \/ handle_sigterm
    \/ MainCheck
    \/ MainStopAll
    \/ MainMap
    \/ MainTick
    \/ \E s \in Names, p \in Pids : spawn_process_ok(s, p)
    \/ \E s \in Names : spawn_process_err(s)
    \/ \E s \in Names : record_pid(s)
    \/ \E p \in Pids, c \in Codes : child_exit(p, c)
    \/ reaper_wakeup
    \/ \E p \in Pids : reaper_reap(p)
    \/ reaper_none

Next == Threads \/ service_exited

NextLogged == Threads \/ service_exited_logged

Spec == Init /\ [][Next]_vars

\* the same program, recording the last folded exit event
HistSpec == Init /\ [][NextLogged]_vars

\* Every thread is scheduled (weak fairness on each thread's steps), every
\* live process eventually exits; the arrival of a signal is not forced.
Fairness ==
    /\ WF_vars(MainCheck) /\ WF_vars(MainStopAll) /\ WF_vars(MainMap)
    /\ WF_vars(MainTick)
    /\ \A s \in Names :
         /\ WF_vars(spawn_process_err(s) \/ \E p \in Pids : spawn_process_ok(s, p))
         /\ WF_vars(record_pid(s))
    /\ \A p \in Pids : WF_vars(\E c \in Codes : child_exit(p, c))
    /\ WF_vars(reaper_wakeup)
    /\ WF_vars(reaper_none \/ \E p \in Pids : reaper_reap(p))
    /\ WF_vars(service_exited)

FairSpec == Spec /\ Fairness

\* ------------------------------------------- orphaned descendants
\* reaper.rs 1-4: waitpid(-1) also returns processes that are no service's
\* child.  A descendant of a service's process is reparented to the
\* supervisor when its parent ends; its pid is any pid free at its fork.
Orphans == {p \in Pids : procs[p].st # "free" /\ procs[p].owner = "-"}

orphan_adopted(p) ==
    /\ Live
    /\ procs[p].st = "free"
    /\ \E q \in Pids : procs[q].st # "free"
    /\ Cardinality(Orphans) < MaxOrphans
    /\ procs' = [procs EXCEPT ![p] = [st |-> "alive", owner |-> "-", code |-> 0,
                                      termed |-> FALSE]]
    /\ UNCHANGED <<build, restart_strategy, supervised, SIGTERM_RECEIVED, main,
                   spawn, reaper, last_exited,
                   fetch_vars, bus_vars>>

ReaperInit ==
    /\ build \in Builds
    /\ restart_strategy = [s \in Names |-> IF s = "a" THEN "OnFailure" ELSE "Never"]
    /\ Supervisor0
    /\ Fetch0
    /\ Bus0

ReaperNext == Next \/ \E p \in Pids : orphan_adopted(p)

ReaperSpec == ReaperInit /\ [][ReaperNext]_vars

TypeOK ==
    /\ build \in Builds
    /\ restart_strategy \in [Names -> RestartStrategy]
    /\ supervised \in [Names -> [status : ServiceStatus, pid : Pids \cup {NoPid}]]
    /\ SIGTERM_RECEIVED \in BOOLEAN
    /\ main \in {"check", "stop", "map", "done", "aborted"}
    /\ spawn \in [Names -> [st : {"none", "sleeping", "forked"}, pid : Pids \cup {NoPid}]]
    /\ \A p \in Pids : procs[p].st \in {"free", "alive", "zombie"}
    /\ reaper.pc \in {"idle", "reaping"}
    /\ reaper.i \in 0..MaxIterations
    /\ Len(reaper.events) <= MaxIterations
    /\ Len(last_exited) <= 1
    /\ Len(services_dir) <= MaxDirLen
    /\ fetched.ok \in BOOLEAN /\ fetched.returned \in BOOLEAN
    /\ published \in 0..MaxEvents
    /\ \A c \in Components :
          /\ Len(outbound[c]) <= MaxEvents /\ Len(inbound[c]) <= MaxEvents
          /\ Len(delivered[c]) <= MaxEvents
          /\ replica[c] \in [Names -> [status : ServiceStatus, pid : Pids \cup {NoPid}]]

\* ------------------------------------------------------------ the claims
HasPid(s) == supervised[s].pid # NoPid

\* a step that folds ServiceExited for service s with exit code c
ExitFolded(s, c) ==
    /\ reaper.pc = "idle"
    /\ reaper.events # <<>>
    /\ Head(reaper.events) = [name |-> s, code |-> c]
    /\ reaper'.events = Tail(reaper.events)
    /\ HasPid(s)

\* C1: a handler that records a pid is Running or InKilling
PidImpliesRunningOrInKilling ==
    \A s \in Names : HasPid(s) => supervised[s].status \in {"Running", "InKilling"}

\* C2: no step moves a handler out of a terminal status, or changes it
TerminalIsFinal ==
    [][\A s \in Names : supervised[s].status \in Terminal
                        => supervised'[s].status = supervised[s].status]_vars

\* C3: whenever the reaper reaps the process forked for a service, the
\* handler table maps the pid to that service, so the exit is not lost
NoExitLost ==
    [][\A p \in Pids :
          (reaper.pc = "reaping" /\ procs[p].st = "zombie" /\ procs'[p].st = "free")
          => get_service_by_pid(supervised, p) = procs[p].owner]_vars

AllTerminal == \A s \in Names : supervised[s].status \in Terminal

\* C4: once shutdown is requested, every handler is eventually terminal and
\* stays terminal
ShutdownConverges == [](SIGTERM_RECEIVED => <>[]AllTerminal)

\* C5: while shutting down an exit is folded to Finished (code 0) or
\* FinishedFailed (code # 0), whatever the restart strategy
ExitWhileShuttingDown ==
    [][\A s \in Names, c \in Codes :
          (SIGTERM_RECEIVED /\ ExitFolded(s, c))
          => supervised'[s].status = IF c # 0 THEN "FinishedFailed" ELSE "Finished"]_vars

\* C6: b enters ToBeRun only when every service of b.start_after is, at that
\* moment, Running, Finished or FinishedFailed
StartOrdering ==
    [][\A b \in Names :
          (supervised[b].status # "ToBeRun" /\ supervised'[b].status = "ToBeRun")
          => \A a \in start_after(b) :
               supervised[a].status \in {"Running", "Finished", "FinishedFailed"}]_vars

StartOrderingWitness ==
    /\ supervised["b"].status = "ToBeRun"
    /\ spawn["b"].st = "sleeping"
    /\ supervised["a"].status = "Running"

\* C7: with a FinishedFailed under restart Never, b (start_after = [a]) is
\* eventually moved from Initial to ToBeRun (unless a shutdown is requested)
FailedPredecessorDoesNotBlock ==
    (/\ ~SIGTERM_RECEIVED
     /\ restart_strategy["a"] = "Never"
     /\ supervised["a"].status = "FinishedFailed"
     /\ supervised["b"].status = "Initial")
    ~> (supervised["b"].status = "ToBeRun" \/ SIGTERM_RECEIVED)

\* the restart policy table of the specification
PolicyStatus(strategy, c) ==
    CASE strategy = "Never" -> IF c # 0 THEN "FinishedFailed" ELSE "Finished"
      [] strategy = "OnFailure" -> IF c # 0 THEN "Initial" ELSE "Finished"
      [] strategy = "Always" -> "Initial"

\* C8: not shutting down, the fold of an exit with code c sets the status by
\* the restart strategy and clears the pid
RestartPolicyOnExit ==
    [][\A s \in Names, c \in Codes :
          (~SIGTERM_RECEIVED /\ ExitFolded(s, c))
          => /\ supervised'[s].status = PolicyStatus(restart_strategy[s], c)
             /\ supervised'[s].pid = NoPid]_vars

RestartPolicyOnExitWitness ==
    /\ ~SIGTERM_RECEIVED
    /\ restart_strategy["a"] = "OnFailure"
    /\ supervised["a"] = Handler("Initial", NoPid)
    /\ restart_strategy["b"] = "Never"
    /\ supervised["b"] = Handler("FinishedFailed", NoPid)

\* C9: folding again a ServiceExited event that was already folded changes
\* nothing, also after the service was restarted and holds a new pid
ExitedTwiceIsExitedOnce ==
    \A i \in 1..Len(last_exited) :
        fold_service_exited(supervised, last_exited[i]) = supervised

\* C10: the pids recorded in the handler table are pairwise distinct
PidsDistinct ==
    \A s, t \in Names : (s # t /\ HasPid(s)) => supervised[s].pid # supervised[t].pid

\* a step in which the main loop evaluates its exit condition
ExitTest == MainMap \/ (MainTick /\ main' # "aborted")

\* the main loop exits in a step exactly when every handler is terminal after it
LoopExitsIffAllTerminal ==
    [][/\ main # "done" /\ main' = "done" => \A s \in Names : supervised'[s].status \in Terminal
       /\ ExitTest /\ (\A s \in Names : supervised'[s].status \in Terminal) => main' = "done"]_vars

\* a process of service s has exited with code c and waits to be reaped
Exited(s, c) == \E p \in Pids : procs[p].st = "zombie" /\ procs[p].owner = s /\ procs[p].code = c

\* without a shutdown request, a service with restart Never whose process
\* exits with code 0 reaches Finished
CleanExitReachesFinished ==
    (restart_strategy["a"] = "Never" /\ Exited("a", 0) /\ ~SIGTERM_RECEIVED)
        ~> (supervised["a"].status = "Finished" \/ SIGTERM_RECEIVED)

\* C11: the main loop exits exactly when every handler is terminal, and a
\* service with restart Never whose process exits with code 0 reaches Finished
LoopTermination == LoopExitsIffAllTerminal /\ CleanExitReachesFinished

\* a step of a spawn thread whose fork failed
ForkFailed(s) == spawn[s].st = "sleeping" /\ spawn'[s].st = "none"

\* a step of a spawn thread whose fork succeeded
Forked(s) == spawn[s].st = "sleeping" /\ spawn'[s].st = "forked"

\* a step that hands s to a spawn thread
MovedToBeRun(s) == supervised[s].status # "ToBeRun" /\ supervised'[s].status = "ToBeRun"

\* C12: a failed fork makes the handler Failed, and a Failed handler is never
\* moved to ToBeRun or forked again
SpawnFailureIsTerminal ==
    [][\A s \in Names :
          /\ ForkFailed(s) => supervised'[s].status = "Failed"
          /\ supervised[s].status = "Failed" => ~MovedToBeRun(s) /\ ~Forked(s)]_vars

\* C13: a kill that fails with ESRCH does not abort the supervisor
KillErrorIsSwallowed == main # "aborted"

IsPrefix(x, y) == Len(x) <= Len(y) /\ SubSeq(y, 1, Len(x)) = x

\* nothing is in flight on the bus
Quiescent == \A c \in Components : outbound[c] = <<>> /\ inbound[c] = <<>>

\* C14: every component receives every event exactly once, and any two
\* components receive the events in the same order
BusTotalOrder ==
    /\ \A c \in Components :
          /\ \A i, j \in 1..Len(delivered[c]) :
                i # j => delivered[c][i].id # delivered[c][j].id
          /\ Quiescent => {delivered[c][i].id : i \in 1..Len(delivered[c])} = 1..published
    /\ \A c1, c2 \in Components :
          IsPrefix(delivered[c1], delivered[c2]) \/ IsPrefix(delivered[c2], delivered[c1])

\* everything sent has been received, and two events were dispatched in the
\* opposite order of their sending
BusTotalOrderWitness ==
    /\ Quiescent
    /\ published = MaxEvents
    /\ \A c \in Components : Len(delivered[c]) = MaxEvents
    /\ \E i, j \in 1..MaxEvents :
          i < j /\ delivered["healthcheck"][i].id > delivered["healthcheck"][j].id

\* C15: once every event sent has been ingested by every component, the
\* replicas hold the same status and pid for every service
ReplicasConverge ==
    Quiescent => \A c1, c2 \in Components : replica[c1] = replica[c2]

\* the runtime changed a service's status locally, and the bus delivered the
\* reaper's later ServiceExited of that service before the StatusChanged
ReplicasConvergeWitness ==
    /\ Quiescent
    /\ published > 0
    /\ \E i, j \in 1..Len(delivered["runtime"]) :
          /\ i < j
          /\ delivered["runtime"][i].kind = "ServiceExited"
          /\ delivered["runtime"][j].kind = "StatusChanged"
          /\ delivered["runtime"][j].name = delivered["runtime"][i].name
          /\ delivered["runtime"][j].id < delivered["runtime"][i].id

\* the entries of the directory that are regular files named *.toml and parse
TomlServices ==
    LET Wanted(e) == e.is_file /\ ends_with(e.name, <<".">> \o toml) /\ e.parses
    IN  SelectSeq(services_dir, Wanted)

\* C16: loading a directory succeeds and returns exactly one service per
\* regular file whose name ends in .toml and parses; every other entry is ignored
FetchReturnsTomlServices ==
    fetched.returned => fetched.ok /\ fetched.services = TomlServices

\* C17: after the shutdown request no handler moves from Initial to ToBeRun
\* and no process is forked
NoStartAfterShutdown ==
    [][SIGTERM_RECEIVED => \A s \in Names : ~MovedToBeRun(s) /\ ~Forked(s)]_vars

\* the table the runnable selection of a scheduler pass reads
SelectionTable ==
    IF build = "runtime" /\ SIGTERM_RECEIVED /\ is_any_service_running(supervised)
    THEN stop_all_runtime(supervised, procs, 1).tbl
    ELSE supervised

\* the handlers the spec's section 3 makes runnable in table tbl
RunnableBySpec(tbl) ==
    {s \in Names : /\ tbl[s].status = "Initial"
                   /\ \A d \in start_after(s) :
                        tbl[d].status \in {"Running", "Finished", "FinishedFailed"}}

\* C18: a scheduler pass selects exactly the Initial handlers whose every
\* predecessor is Running, Finished or FinishedFailed
SelectsExactlyRunnable ==
    [][(MainMap \/ MainTick) /\ main' # "aborted" =>
          Started(SelectionTable, supervised') = RunnableBySpec(SelectionTable)]_vars

\* a step in which stop_all_services has run
StopAllStep ==
    \/ build = "mod" /\ MainStopAll
    \/ build = "runtime" /\ SIGTERM_RECEIVED /\ is_any_service_running(supervised) /\ MainTick

\* a process of service s is sent a signal in the step
Signalled(s) == \E p \in Pids : procs[p].owner = s /\ ~procs[p].termed /\ procs'[p].termed

\* C19: stop_all_services sets every handler in Initial or ToBeRun to Finished
StopAllFinishesUnstarted ==
    [][StopAllStep /\ main' # "aborted" =>
          \A s \in Names : supervised[s].status \in {"Initial", "ToBeRun"}
                              => supervised'[s].status = "Finished"]_vars

\* C20: stop_all_services leaves a terminal or InKilling handler as it is and
\* sends its process no signal
StopAllSkipsTerminalAndInKilling ==
    [][StopAllStep =>
          \A s \in Names : supervised[s].status \in Terminal \cup {"InKilling"}
              => /\ supervised'[s] = supervised[s]
                 /\ ~Signalled(s)]_vars

\* C21: a reaper batch appends ServiceExited(name, code) for each reaped pid
\* of a service's process that the table maps to a service, in reap order;
\* it appends nothing for a reaped orphan; it changes no handler, and the
\* reaped pid is released in both cases
ReaperBatchEvents ==
    [][\A p \in Pids : reaper_reap(p) =>
          LET s_name == get_service_by_pid(supervised, p)
          IN  /\ procs'[p].st = "free"
              /\ supervised' = supervised
              /\ procs[p].owner \in Names /\ s_name # "-"
                   => reaper'.events = Append(reaper.events,
                                              [name |-> s_name, code |-> procs[p].code])
              /\ procs[p].owner = "-" => reaper'.events = reaper.events]_vars

\* a waitpid call of the running batch returns in the step
WaitpidCall == reaper_none \/ \E p \in Pids : reaper_reap(p)

\* C22: a reaper batch makes at most max_iterations waitpid calls, and the
\* call that reports StillAlive, no child or an error is its last one
ReaperBatchStops ==
    [][/\ WaitpidCall => reaper.i < MaxIterations
       /\ reaper_none => reaper'.pc = "idle"]_vars

\* a spawn thread of s is sleeping in start_delay or has forked and not yet
\* recorded the pid
SpawnPending(s) == spawn[s].st # "none"

\* a process forked for a service runs
ServiceProcessAlive == \E p \in Pids : procs[p].st = "alive" /\ procs[p].owner \in Names

\* C23: when the scheduler loop has exited no spawn thread is pending and no
\* process forked for a service is alive
LoopExitLeavesNothingBehind ==
    main = "done" => /\ \A s \in Names : ~SpawnPending(s)
                     /\ ~ServiceProcessAlive
====
